---- MODULE Spec2Model ----
(***************************************************************************)
(* Model of jack_visualiser.py: the JACK process callback that fills the   *)
(* deque raw_audio, and the consumer loop made of the generators           *)
(* generate_periodogram_from_audio and generate_images driven by the       *)
(* for-loop of visualise.                                                  *)
(*                                                                         *)
(* A deque is a sequence whose index 1 is its LEFT end.  Floating point    *)
(* values are modelled by integers: the periodogram is Welch's estimate    *)
(* multiplied by one positive constant per configuration (the sample rate, *)
(* the window energy and the number of segments only scale it).            *)
(***************************************************************************)
EXTENDS Integers, Sequences, FiniteSets, TLC

\* ------------------------------------------------------------------ bounds
MaxFrame == 3        \* largest --samples-per-frame explored
MaxSeeds == 2        \* largest number of seeds explored
MaxBlock == 2        \* largest frame_count of one JACK process cycle
MaxArrivals == 4     \* total number of sample pairs the callback delivers
MaxPsdLen == 5       \* longest periodogram given to the aggregation alone
MaxPsdVal == 2       \* largest periodogram entry given to the aggregation alone
MaxBins == 3         \* largest bin_count given to the aggregation alone
MaxBasis == 3        \* largest number of seeds given to the combination alone
MaxWeight == 3       \* largest weight given to the combination alone
MaxMonoFrame == 2    \* largest frame given to the stereo-to-mono sum alone

Dim == 2              \* length of a latent vector, Gs.input_shape[1]

\* the byte strings one 32 bit sample can arrive as: 0 and 1, little endian
SampleBytes == { <<0, 0, 0, 0>>, <<1, 0, 0, 0>> }

\* samples at the ends of the 32 bit range: 2^31 - 1, -2^31, 1 and -1
ExtremeBytes ==
    { <<255, 255, 255, 127>>, <<0, 0, 0, 128>>, <<1, 0, 0, 0>>,
      <<255, 255, 255, 255>> }

VARIABLES
    seeds,              \* list of seeds parsed from --seeds
    samples_per_frame,  \* --samples-per-frame
    raw_audio,          \* the deque shared by callback and consumer
    ppc,                \* position of the process callback
    pending,            \* zip(buffer_one, buffer_two) not yet appended
    pc,                 \* position of the consumer loop
    audio,              \* the list the comprehension of line 53 builds
    audio_mono,
    periodogram,
    periodogram_split,
    periodogram_summed,
    normalised_noise,   \* the direction computed by lines 83-86
    model_input,        \* what Gs.components.mapping.run was last given
    images,             \* number of images shown by root.update()
    error,              \* exception that ended the consumer, or "none"
    arrival,            \* history: every pair appended, in order
    popped,             \* history: every pair popped, in order
    check_mark,         \* history: buffer length and arrivals when line 49 passed
    yielded             \* history: the mono frame and weights of every yield

vars == << seeds, samples_per_frame, raw_audio, ppc, pending, pc, audio,
           audio_mono, periodogram, periodogram_split, periodogram_summed,
           normalised_noise, model_input, images, error, arrival, popped,
           check_mark, yielded >>

config == << seeds, samples_per_frame >>
producer == << ppc, pending >>
analysis == << audio_mono, periodogram, periodogram_split, periodogram_summed >>
synthesis == << normalised_noise, model_input, images >>
history == << arrival, popped, check_mark, yielded >>

\* ------------------------------------------------------------ sequences
RECURSIVE SeqSum(_)
SeqSum(s) == IF s = << >> THEN 0 ELSE Head(s) + SeqSum(Tail(s))

Reverse(s) == [i \in 1..Len(s) |-> s[Len(s) + 1 - i]]

\* Python's a[lo:hi] for 0 <= lo <= hi <= len(a)
PySlice(a, lo, hi) == SubSeq(a, lo + 1, hi)

\* all sequences over S of length exactly n
SeqsOfLen(S, n) == [1..n -> S]

\* len(seeds), the bin_count handed to generate_periodogram_from_audio
bin_count == Len(seeds)

\* ------------------------------------------------------ collections.deque
\* mutant: the pair is added at the right end, where pop() takes from
append_right(d, x) == d \o <<x>>

\* mutant: a deque(maxlen=2), which drops its rightmost element when full
appendleft_maxlen(d, x) ==
    IF Len(d) >= 2 THEN <<x>> \o SubSeq(d, 1, Len(d) - 1) ELSE <<x>> \o d

\* deque.appendleft(x): x becomes the leftmost element
appendleft(d, x) == <<x>> \o d

\* deque.pop(): the value returned is the rightmost element ...
pop_value(d) == d[Len(d)]

\* mutant: the leftmost element is removed instead
pop_rest_left(d) == Tail(d)

\* ... and that rightmost element is removed
pop_rest(d) == SubSeq(d, 1, Len(d) - 1)

\* --------------------------------------------------------- unpack_bytes
\* one '<l' field: four bytes, little endian, two's complement
le_int32(b) ==
    b[1] + 256 * b[2] + 65536 * b[3]
         + 16777216 * (IF b[4] >= 128 THEN b[4] - 256 ELSE b[4])

\* struct.unpack(f'<{int_count}l', byte_string), defined when the length fits
unpack_bytes(byte_string, int_count) ==
    [i \in 1..int_count |-> le_int32(SubSeq(byte_string, 4 * i - 3, 4 * i))]

\* the bytes of a port buffer holding the given samples
RECURSIVE Flatten(_)
Flatten(ss) == IF ss = << >> THEN << >> ELSE Head(ss) \o Flatten(Tail(ss))

\* zip(a, b) as a list of pairs
zip(a, b) ==
    [i \in 1..(IF Len(a) < Len(b) THEN Len(a) ELSE Len(b)) |-> <<a[i], b[i]>>]

\* ----------------------------------------------------- process callback
\* lines 117-125: JACK calls process(frame_count); both port buffers are
\* unpacked.  The client is active only while the with-block of visualise
\* has not been left by an exception.
process_begin ==
    /\ ppc = "idle"
    /\ error = "none"
    /\ \E frame_count \in 1..MaxBlock :
         /\ Len(arrival) + frame_count <= MaxArrivals
         /\ \E one \in SeqsOfLen(SampleBytes, frame_count),
               two \in SeqsOfLen(SampleBytes, frame_count) :
              LET buffer_one == unpack_bytes(Flatten(one), frame_count)
                  buffer_two == unpack_bytes(Flatten(two), frame_count)
              IN  pending' = zip(buffer_one, buffer_two)
    /\ ppc' = "append"
    /\ UNCHANGED << config, raw_audio, pc, audio, analysis, synthesis, error,
                    history >>

\* mutant: the append waits while the consumer is extracting a frame
process_append_locked ==
    /\ ppc = "append"
    /\ pc # "pop"
    /\ raw_audio' = appendleft(raw_audio, Head(pending))
    /\ arrival' = Append(arrival, Head(pending))
    /\ pending' = Tail(pending)
    /\ ppc' = IF Tail(pending) = << >> THEN "idle" ELSE "append"
    /\ UNCHANGED << config, pc, audio, analysis, synthesis, error, popped,
                    check_mark, yielded >>

\* lines 127-128: one iteration of the for loop
process_append ==
    /\ ppc = "append"
    /\ raw_audio' = appendleft(raw_audio, Head(pending))
    /\ arrival' = Append(arrival, Head(pending))
    /\ pending' = Tail(pending)
    /\ ppc' = IF Tail(pending) = << >> THEN "idle" ELSE "append"
    /\ UNCHANGED << config, pc, audio, analysis, synthesis, error, popped,
                    check_mark, yielded >>

\* ------------------------------------------------- consumer: extraction
\* mutant: the length check lets through a buffer one pair short
buffer_ready_early(d, n) == ~(Len(d) + 1 < n)

\* line 49, negated: the buffer holds a whole frame
buffer_ready(d, n) == ~(Len(d) < n)

\* mutant: the comprehension stops one pop early
range_done_early(a, n) == Len(a) >= n - 1

\* line 53: range(samples_per_frame) is exhausted
range_done(a, n) == Len(a) >= n

\* lines 69-79: first resumption of generate_images.  np.stack of an empty
\* list of noise vectors raises ValueError.
load_networks ==
    /\ pc = "load"
    /\ IF bin_count = 0
         THEN pc' = "error" /\ error' = "ValueError"
         ELSE pc' = "check" /\ error' = error
    /\ UNCHANGED << config, raw_audio, producer, audio, analysis, synthesis,
                    history >>

\* line 49: the length check at the top of the while loop
check_buffer ==
    /\ pc = "check"
    /\ IF buffer_ready(raw_audio, samples_per_frame)
         THEN /\ pc' = "pop"
              /\ audio' = << >>
              /\ check_mark' = [len |-> Len(raw_audio), arrived |-> Len(arrival)]
         ELSE /\ pc' = "sleep"
              /\ UNCHANGED << audio, check_mark >>
    /\ UNCHANGED << config, raw_audio, producer, analysis, synthesis, error,
                    arrival, popped, yielded >>

\* lines 50-51: time.sleep(0.001); continue
sleep ==
    /\ pc = "sleep"
    /\ pc' = "check"
    /\ UNCHANGED << config, raw_audio, producer, audio, analysis, synthesis,
                    error, history >>

\* line 53: one audio_buffer.pop() of the list comprehension; pop() on an
\* empty deque raises IndexError
pop ==
    /\ pc = "pop"
    /\ IF raw_audio = << >>
         THEN /\ pc' = "error"
              /\ error' = "IndexError"
              /\ UNCHANGED << raw_audio, audio, popped >>
         ELSE /\ audio' = Append(audio, pop_value(raw_audio))
              /\ popped' = Append(popped, pop_value(raw_audio))
              /\ raw_audio' = pop_rest(raw_audio)
              /\ pc' = IF range_done(Append(audio, pop_value(raw_audio)),
                                     samples_per_frame)
                         THEN "mono" ELSE "pop"
              /\ error' = error
    /\ UNCHANGED << config, producer, analysis, synthesis, arrival, check_mark,
                    yielded >>

\* the widths numpy's default integer (a C long for numpy 1.x) can have:
\* 32 bits on Windows, 64 bits elsewhere.  np.array of a list of tuples of
\* Python ints that fit gets this dtype and np.sum keeps it.
NumpyIntBits == {32, 64}

\* a + b for 32 bit a and b, as the low 32 bits `lo` (two's complement) and
\* the multiple `carry` of 2^32 that the low bits leave out
add_wide(a, b) ==
    IF a > 0 /\ b > 0 /\ a > 2147483647 - b
      THEN [carry |-> 1, lo |-> (a - 2147483647 - 1) + (b - 2147483647 - 1)]
    ELSE IF a < 0 /\ b < 0 /\ a < (-2147483647 - 1) - b
      THEN [carry |-> -1, lo |-> (a + 2147483647 + 1) + (b + 2147483647 + 1)]
    ELSE [carry |-> 0, lo |-> a + b]

\* integer addition in a dtype of the given width: 64 bits hold the sum,
\* 32 bits keep its low 32 bits only (silent wrap-around)
add_int(a, b, bits) ==
    IF bits = 64 THEN add_wide(a, b)
                 ELSE [carry |-> 0, lo |-> add_wide(a, b).lo]

\* np.sum(audio, axis=1) of a list of pairs
np_sum_pairs(a, bits) == [i \in 1..Len(a) |-> add_int(a[i][1], a[i][2], bits)]

\* the value of a summed sample as signal.welch reads it
as_float(m) == IF m.carry = 0 THEN m.lo ELSE m.lo + m.carry * 65536 * 65536

\* the mono frame as an array of values
as_floats(frame) == [i \in 1..Len(frame) |-> as_float(frame[i])]

\* lines 54-55
mono ==
    /\ pc = "mono"
    /\ \E bits \in NumpyIntBits : audio_mono' = np_sum_pairs(audio, bits)
    /\ pc' = "welch"
    /\ UNCHANGED << config, raw_audio, producer, audio, periodogram,
                    periodogram_split, periodogram_summed, synthesis, error,
                    history >>

\* ------------------------------------------------------- signal.welch
\* 2*cos(2*pi*m/N), an integer for the segment lengths N in {1,2,3,4,6}
cos2(m, N) ==
    CASE N = 1 -> 2
      [] N = 2 -> <<2, -2>>[(m % 2) + 1]
      [] N = 3 -> <<2, -1, -1>>[(m % 3) + 1]
      [] N = 4 -> <<2, 0, -2, 0>>[(m % 4) + 1]
      [] N = 6 -> <<2, 1, -1, -2, -1, 1>>[(m % 6) + 1]

\* 4 * get_window('hann', N)[j], the periodic Hann window; ones for N = 1
hann4(j, N) == IF N = 1 THEN 4 ELSE 2 - cos2(j, N)

\* detrend='constant' on one segment, times N: x - mean(x)
detrend_constant(seg) == [j \in 1..Len(seg) |-> Len(seg) * seg[j] - SeqSum(seg)]

\* the detrended segment multiplied by the window
windowed(seg) ==
    [j \in 1..Len(seg) |-> hann4(j - 1, Len(seg)) * detrend_constant(seg)[j]]

\* 2 * |rfft(z)[k]|^2 = sum over j, l of z[j] * z[l] * 2*cos(2*pi*k*(j-l)/N)
power(z, k) ==
    LET N == Len(z)
    IN  SeqSum([j \in 1..N |->
          SeqSum([l \in 1..N |->
            z[j] * z[l] * cos2(k * (j - l) + k * N, N)])])

\* return_onesided=True: every bin but DC and Nyquist is doubled
onesided(k, N) == IF k = 0 \/ (N % 2 = 0 /\ k = N \div 2) THEN 1 ELSE 2

\* signal.welch(samples, fs, nperseg=nperseg): segments of nperseg samples
\* overlapping by nperseg // 2, Hann window, constant detrend, periodograms
\* summed over the segments; nperseg // 2 + 1 one-sided bins
signal_welch(samples, nperseg) ==
    LET noverlap == nperseg \div 2
        nstep == nperseg - noverlap
        nseg == (Len(samples) - noverlap) \div nstep
        segment(i) == PySlice(samples, i * nstep, i * nstep + nperseg)
    IN  [k \in 1..(nperseg \div 2 + 1) |->
           onesided(k - 1, nperseg) *
             SeqSum([i \in 1..nseg |-> power(windowed(segment(i - 1)), k - 1)])]

\* line 37: int(samples.size / bin_count)
segment_size(samples, bins) == Len(samples) \div bins

\* mutant: the estimate is added to the periodogram of the previous cycle
welch_periodogram_accumulating ==
    /\ pc = "welch"
    /\ bin_count # 0
    /\ segment_size(audio_mono, bin_count) >= 1
    /\ LET new == signal_welch(as_floats(audio_mono),
                                segment_size(audio_mono, bin_count))
       IN  periodogram' = IF Len(periodogram) = Len(new)
                            THEN [k \in 1..Len(new) |-> periodogram[k] + new[k]]
                            ELSE new
    /\ pc' = "split"
    /\ UNCHANGED << config, raw_audio, producer, audio, audio_mono,
                    periodogram_split, periodogram_summed, synthesis, error,
                    history >>

\* lines 36-44 and 57-58: welch_periodogram.  Division by a zero bin_count
\* raises ZeroDivisionError, nperseg < 1 makes signal.welch raise ValueError.
welch_periodogram ==
    /\ pc = "welch"
    /\ IF bin_count = 0
         THEN pc' = "error" /\ error' = "ZeroDivisionError"
                            /\ periodogram' = periodogram
         ELSE IF segment_size(audio_mono, bin_count) < 1
         THEN pc' = "error" /\ error' = "ValueError"
                            /\ periodogram' = periodogram
         ELSE /\ periodogram' =
                   signal_welch(as_floats(audio_mono),
                                segment_size(audio_mono, bin_count))
              /\ pc' = "split"
              /\ error' = error
    /\ UNCHANGED << config, raw_audio, producer, audio, audio_mono,
                    periodogram_split, periodogram_summed, synthesis, history >>

\* --------------------------------------------- aggressive_array_split
\* line 32: len(array) - (len(array) % parts)
end_index(array, parts) == Len(array) - (Len(array) % parts)

\* numpy.array_split: the sizes of the sections, Neach + 1 for the first
\* `extras` sections and Neach for the others
section_size(total, sections, i) ==
    IF i <= total % sections THEN total \div sections + 1
                             ELSE total \div sections

\* numpy.array_split: div_points = cumsum([0] + section_sizes)
RECURSIVE div_point(_, _, _)
div_point(total, sections, i) ==
    IF i = 0 THEN 0
    ELSE div_point(total, sections, i - 1) + section_size(total, sections, i)

\* mutant: every section but the first starts one entry early, so that
\* neighbouring sections share an entry
np_split_overlap(ary, sections) ==
    [i \in 1..sections |->
        PySlice(ary,
                IF div_point(Len(ary), sections, i - 1) > 0
                  THEN div_point(Len(ary), sections, i - 1) - 1 ELSE 0,
                div_point(Len(ary), sections, i))]

\* numpy.split(ary, sections) for an integer `sections` dividing len(ary):
\* sub-array i is ary[div_points[i]:div_points[i + 1]]
np_split(ary, sections) ==
    [i \in 1..sections |->
        PySlice(ary, div_point(Len(ary), sections, i - 1),
                     div_point(Len(ary), sections, i))]

\* mutant: the remainder is cut from the head of the array, not its tail
aggressive_array_split_head(array, parts) ==
    np_split(PySlice(array, Len(array) % parts, Len(array)), parts)

\* lines 30-33
aggressive_array_split(array, parts) ==
    np_split(PySlice(array, 0, end_index(array, parts)), parts)

\* mutant: np.sum(list_of_arrays, axis=0)
np_sum_axis0(arrays) ==
    [j \in 1..(IF arrays = << >> THEN 0 ELSE Len(arrays[1])) |->
        SeqSum([i \in 1..Len(arrays) |-> arrays[i][j]])]

\* np.sum(list_of_arrays, axis=1)
np_sum_axis1(arrays) == [i \in 1..Len(arrays) |-> SeqSum(arrays[i])]

\* lines 59-60.  `% 0` raises ZeroDivisionError; numpy.split raises
\* ValueError when the sections do not divide the array.
split ==
    /\ pc = "split"
    /\ IF bin_count = 0
         THEN pc' = "error" /\ error' = "ZeroDivisionError"
                            /\ periodogram_split' = periodogram_split
         ELSE IF end_index(periodogram, bin_count) % bin_count # 0
         THEN pc' = "error" /\ error' = "ValueError"
                            /\ periodogram_split' = periodogram_split
         ELSE /\ periodogram_split' =
                   aggressive_array_split(periodogram, bin_count)
              /\ pc' = "sum"
              /\ error' = error
    /\ UNCHANGED << config, raw_audio, producer, audio, audio_mono, periodogram,
                    periodogram_summed, synthesis, history >>

\* lines 61-62
sum ==
    /\ pc = "sum"
    /\ periodogram_summed' = np_sum_axis1(periodogram_split)
    /\ pc' = "assert"
    /\ UNCHANGED << config, raw_audio, producer, audio, audio_mono, periodogram,
                    periodogram_split, synthesis, error, history >>

\* lines 63-65: the shape assertion, then the weights are yielded to the
\* for loop of generate_images
assert_yield ==
    /\ pc = "assert"
    /\ IF Len(periodogram_summed) = bin_count
         THEN /\ pc' = "combine"
              /\ error' = error
              /\ yielded' = Append(yielded, [mono |-> audio_mono,
                                             weights |-> periodogram_summed])
         ELSE /\ pc' = "error"
              /\ error' = "AssertionError"
              /\ yielded' = yielded
    /\ UNCHANGED << config, raw_audio, producer, audio, analysis, synthesis,
                    arrival, popped, check_mark >>

\* ---------------------------------------------------- generate_images
\* np.random.RandomState(seed).randn(Dim): a fixed vector per seed
randn(seed) ==
    [d \in 1..Dim |-> (((7 * seed + 3 * d) * (seed + d)) % 11) - 5]

\* line 79
all_input_noise == [i \in 1..Len(seeds) |-> randn(seeds[i])]

\* lines 83-84: weights.reshape(N, 1) * all_input_noise, summed over axis 0
weighted_sum(weights, noise) ==
    [d \in 1..Dim |-> SeqSum([i \in 1..Len(noise) |-> weights[i] * noise[i][d]])]

\* mutant: np.linalg.norm(v, ord=1) squared
norm1_squared(v) ==
    LET abs(x) == IF x < 0 THEN -x ELSE x
        n1 == SeqSum([d \in 1..Len(v) |-> abs(v[d])])
    IN  n1 * n1

\* np.linalg.norm(v, ord=2) squared
norm_squared(v) == SeqSum([d \in 1..Len(v) |-> v[d] * v[d]])

\* IEEE division of x by the square root of n2: x / 0.0 is nan for x = 0
\* and +-inf otherwise; a finite quotient is kept as the pair (x, n2)
divide(x, n2) ==
    IF n2 = 0
      THEN [kind |-> IF x = 0 THEN "nan" ELSE "inf", num |-> x, den2 |-> 0]
      ELSE [kind |-> "finite", num |-> x, den2 |-> n2]

\* line 85
normalise(v) == [d \in 1..Len(v) |-> divide(v[d], norm_squared(v))]

\* lines 82-86
combine ==
    /\ pc = "combine"
    /\ normalised_noise' =
         normalise(weighted_sum(periodogram_summed, all_input_noise))
    /\ pc' = "run"
    /\ UNCHANGED << config, raw_audio, producer, audio, analysis, model_input,
                    images, error, history >>

\* lines 88-91: the direction is handed to the mapping network and the
\* synthesised image is yielded
run_model ==
    /\ pc = "run"
    /\ model_input' = normalised_noise
    /\ pc' = "render"
    /\ UNCHANGED << config, raw_audio, producer, audio, analysis,
                    normalised_noise, images, error, history >>

\* lines 145-153, then control returns to the while loop of line 48
render ==
    /\ pc = "render"
    /\ images' = images + 1
    /\ pc' = "check"
    /\ UNCHANGED << config, raw_audio, producer, audio, analysis,
                    normalised_noise, model_input, error, history >>

\* ------------------------------------------------------ specifications
\* seed lists 1, 2, .., k
SeedLists(n) == { [i \in 1..k |-> i] : k \in 0..n }

Blank ==
    /\ raw_audio = << >>
    /\ audio = << >>
    /\ audio_mono = << >>
    /\ periodogram_split = << >>
    /\ normalised_noise = << >>
    /\ model_input = << >>
    /\ images = 0
    /\ error = "none"
    /\ arrival = << >>
    /\ popped = << >>
    /\ check_mark = [len |-> 0, arrived |-> 0]
    /\ yielded = << >>

\* visualise up to line 144: options parsed, empty deque, client active
Init ==
    /\ seeds \in SeedLists(MaxSeeds)
    /\ samples_per_frame \in 1..MaxFrame
    /\ pc = "load"
    /\ periodogram = << >>
    /\ periodogram_summed = << >>
    /\ ppc = "idle"
    /\ pending = << >>
    /\ Blank

Next ==
    \/ process_begin
    \/ process_append
    \/ load_networks
    \/ check_buffer
    \/ sleep
    \/ pop
    \/ mono
    \/ welch_periodogram
    \/ split
    \/ sum
    \/ assert_yield
    \/ combine
    \/ run_model
    \/ render

Spec == Init /\ [][Next]_vars

\* the aggregation of lines 59-65 alone, applied to every small periodogram
InitAgg ==
    /\ seeds \in SeedLists(MaxBins) \ { << >> }
    /\ samples_per_frame = 1
    /\ pc = "split"
    /\ periodogram \in UNION { SeqsOfLen(0..MaxPsdVal, n) : n \in 0..MaxPsdLen }
    /\ periodogram_summed = << >>
    /\ ppc = "idle"
    /\ pending = << >>
    /\ Blank

NextAgg ==
    \/ split
    \/ sum
    \/ assert_yield

SpecAgg == InitAgg /\ [][NextAgg]_vars

\* ----------------------------------------------------------- properties
\* the stages of one cycle that follow a completed extraction
Extracted == {"mono", "welch", "split", "sum", "assert", "combine", "run", "render"}

\* no pair was appended since the length check of the current extraction
NoAppendSinceCheck == Len(arrival) = check_mark.arrived

\* C1: once the extraction of a cycle is complete, the frame holds exactly
\* samples_per_frame popped pairs (and so does the mono frame made of it),
\* and the buffer is shorter than at the length check by exactly
\* samples_per_frame, counting in the pairs appended since that check.
C1_ExactFrame ==
    pc \in Extracted =>
      /\ Len(audio) = samples_per_frame
      /\ (pc # "mono" => Len(audio_mono) = samples_per_frame)
      /\ Len(raw_audio) =
           check_mark.len + (Len(arrival) - check_mark.arrived) - samples_per_frame

\* an extraction of a frame of several pairs completed with appends landing
\* between its length check and its last pop
C1_Witness ==
    /\ pc = "mono"
    /\ samples_per_frame >= 2
    /\ Len(arrival) > check_mark.arrived
    /\ Len(audio) = samples_per_frame

\* C2 as claimed: with no append during the extraction, the frame is the
\* most recently appended pairs, most recent first.
C2_NewestFirst ==
    (pc = "mono" /\ NoAppendSinceCheck) =>
      \A i \in 1..Len(audio) : audio[i] = arrival[Len(arrival) + 1 - i]

\* C2 amended: with no append during the extraction, the frame is the
\* pairs that had been in the buffer longest, in arrival order (oldest
\* first): after A, B, C an extraction of 2 returns [A, B].
C2_OldestFirst ==
    (pc = "mono" /\ NoAppendSinceCheck) =>
      LET first == check_mark.arrived - check_mark.len
      IN  audio = SubSeq(arrival, first + 1, first + samples_per_frame)

\* three different pairs A, B, C were appended and an extraction of 2 has
\* just returned [A, B]
C2_Witness ==
    /\ pc = "mono"
    /\ NoAppendSinceCheck
    /\ samples_per_frame = 2
    /\ Len(arrival) = 3
    /\ Cardinality({arrival[1], arrival[2], arrival[3]}) = 3
    /\ audio = << arrival[1], arrival[2] >>

\* C3: no pop executes on an empty buffer: whenever the comprehension of
\* line 53 is about to pop, the buffer holds at least the pairs the frame
\* still lacks, and IndexError is never raised.
C3_NoEmptyPop ==
    /\ error # "IndexError"
    /\ pc = "pop" => Len(raw_audio) >= samples_per_frame - Len(audio)
    /\ pc = "pop" => Len(raw_audio) >= 1

\* the last pop of a frame is about to take the only pair left, while the
\* callback is in the middle of its loop
C3_Witness ==
    /\ pc = "pop"
    /\ Len(raw_audio) = 1
    /\ Len(audio) = samples_per_frame - 1
    /\ Len(audio) >= 1
    /\ ppc = "append"

\* C4: the callback can always take its next step, whatever the consumer
\* is doing: an iteration of its loop is enabled whenever it is inside the
\* loop, and a new process cycle can start whenever the client is active
\* (within the number of pairs the model delivers).
C4_AppendNeverBlocked ==
    /\ ppc = "append" => ENABLED process_append
    /\ (ppc = "idle" /\ error = "none" /\ Len(arrival) < MaxArrivals)
         => ENABLED process_begin

\* the callback is inside its loop while the consumer is in the middle of
\* an extraction
C4_Witness ==
    /\ ppc = "append"
    /\ pc = "pop"
    /\ Len(audio) >= 1
    /\ ENABLED process_append

\* C5: the buffer, read from its right end to its left end, is exactly the
\* arrivals that have not been popped: a contiguous run of the arrival
\* sequence, in arrival order, every pair as it was appended; each step
\* leaves the buffer alone, adds one pair at the left end or removes the
\* pair at the right end.
C5_Run == arrival = popped \o Reverse(raw_audio)

C5_Ends ==
    \/ raw_audio' = raw_audio
    \/ \E x \in {arrival'[Len(arrival')]} : raw_audio' = <<x>> \o raw_audio
    \/ raw_audio # << >> /\ raw_audio' = SubSeq(raw_audio, 1, Len(raw_audio) - 1)

C5_ContiguousRun == []C5_Run /\ [][C5_Ends]_vars

\* the buffer holds a run from the middle of the arrival sequence: a pair
\* was popped before it, and it holds two different pairs
C5_Witness ==
    /\ Len(popped) >= 1
    /\ Len(raw_audio) >= 2
    /\ raw_audio[1] # raw_audio[2]
    /\ popped[1] # raw_audio[Len(raw_audio)]

\* the weight vector of the cycle is all zeros
ZeroWeights == \A i \in 1..Len(periodogram_summed) : periodogram_summed[i] = 0

\* C6: when every weight of a cycle is zero, the consumer does not hand the
\* model a direction with a nan or inf component: it has either signalled
\* an error or fallen back on a finite direction.
C6_NoNaNToModel ==
    (pc = "render" /\ ZeroWeights) =>
      \A d \in 1..Len(model_input) : model_input[d].kind = "finite"

\* the aggregation of the cycle is done: the weights exist
Aggregated == pc \in {"assert", "combine"}

\* C7: the summed periodogram has exactly bin_count entries when the
\* assertion of line 63 is evaluated and when it is yielded, so that the
\* assertion never fails, whatever the length of the periodogram.
C7_WeightLength ==
    /\ error # "AssertionError"
    /\ Aggregated => Len(periodogram_summed) = bin_count

\* weights were yielded for a periodogram whose length is larger than
\* bin_count and not a multiple of it
C7_Witness ==
    /\ pc = "combine"
    /\ Len(periodogram) > bin_count
    /\ Len(periodogram) % bin_count # 0
    /\ Len(periodogram_summed) = bin_count

\* C8: for len(psd) >= bin_count >= 1 and g = floor(len(psd) / bin_count),
\* weight i (from 0) is the sum of psd[i*g .. (i+1)*g - 1]: equal contiguous
\* groups from the lowest frequency up, the last len(psd) % bin_count
\* entries left out.
C8_GroupSums ==
    (Aggregated /\ bin_count >= 1 /\ Len(periodogram) >= bin_count) =>
      LET g == Len(periodogram) \div bin_count
      IN  /\ Len(periodogram_summed) = bin_count
          /\ \A i \in 0..(bin_count - 1) :
               periodogram_summed[i + 1] =
                 SeqSum([k \in 1..g |-> periodogram[i * g + k]])

\* weights were yielded for 5 entries in 2 bins, with a non-zero entry in
\* the dropped tail and different sums in the two groups
C8_Witness ==
    /\ pc = "combine"
    /\ bin_count = 2
    /\ Len(periodogram) = 5
    /\ periodogram[5] # 0
    /\ periodogram_summed = << periodogram[1] + periodogram[2],
                               periodogram[3] + periodogram[4] >>
    /\ periodogram_summed[1] # periodogram_summed[2]

\* C9: for len(psd) >= bin_count the weights add up to no more than the
\* truncated periodogram does.
C9_NoDoubleCounting ==
    (Aggregated /\ bin_count >= 1 /\ Len(periodogram) >= bin_count) =>
      SeqSum(periodogram_summed) <=
        SeqSum(SubSeq(periodogram, 1,
                      Len(periodogram) - (Len(periodogram) % bin_count)))

\* weights were yielded for a periodogram of positive entries, some of them
\* in the dropped tail
C9_Witness ==
    /\ pc = "combine"
    /\ bin_count >= 2
    /\ Len(periodogram) > bin_count
    /\ Len(periodogram) % bin_count # 0
    /\ \A k \in 1..Len(periodogram) : periodogram[k] > 0
    /\ SeqSum(periodogram_summed) < SeqSum(periodogram)

\* C10: no weight vector is yielded for a periodogram shorter than
\* bin_count (the aggregation reports a configuration error instead).
C10_InsufficientResolution ==
    (bin_count >= 1 /\ Len(periodogram) < bin_count) => pc # "combine"

\* the configuration makes floor(samples_per_frame / bin_count) less than 1
\* (no seeds, or more seeds than samples in a frame)
DegenerateSegment ==
    bin_count = 0 \/ samples_per_frame \div bin_count < 1

\* C11: with such a configuration the consumer never pops a pair from the
\* buffer: it fails at startup, before the first extraction.
C11_FailsAtStartup == DegenerateSegment => popped = << >>

\* ---------------------------------------------------------------- liveness
\* the steps of the process callback and of the consumer loop
callback_step == process_begin \/ process_append

consumer_step ==
    \/ load_networks \/ check_buffer \/ sleep \/ pop \/ mono
    \/ welch_periodogram \/ split \/ sum \/ assert_yield
    \/ combine \/ run_model \/ render

\* JACK keeps invoking the callback while the client is active, and the
\* consumer thread keeps running: its sleep of line 50 always returns
SpecLive == Init /\ [][Next]_vars /\ WF_vars(callback_step) /\ WF_vars(consumer_step)

\* the consumer is polling a buffer that holds less than a frame
Starved == pc \in {"check", "sleep"} /\ Len(raw_audio) < samples_per_frame

\* the pairs the model still delivers are enough to complete a frame
CanStillFill ==
    Len(raw_audio) + (MaxArrivals - Len(arrival)) >= samples_per_frame

\* while the buffer is short the consumer keeps polling: it pops nothing
\* and yields nothing
C12_StaysWaiting ==
    Starved => /\ pc' \in {"check", "sleep"}
               /\ popped' = popped
               /\ images' = images

\* C12: a consumer polling a short buffer stays in the waiting state and,
\* the callback being invoked again and again, eventually has popped a
\* whole frame and yielded its weight vector to generate_images.
C12_ExtractorLiveness ==
    /\ [][C12_StaysWaiting]_vars
    /\ (Starved /\ CanStillFill) ~> (pc = "combine")

\* the stage of the pipeline state machine a consumer position belongs to
Stage(p) ==
    CASE p \in {"check", "sleep"} -> "WAIT_FOR_SAMPLES"
      [] p \in {"pop", "mono"} -> "EXTRACT"
      [] p = "welch" -> "ANALYZE"
      [] p \in {"split", "sum", "assert"} -> "AGGREGATE"
      [] p = "combine" -> "NORMALIZE"
      [] p \in {"run", "render"} -> "EMIT"
      [] OTHER -> p

\* the stage changes of WAIT_FOR_SAMPLES -> EXTRACT -> ANALYZE -> AGGREGATE
\* -> NORMALIZE -> EMIT -> (loop), entered from startup unless startup fails
StageOrder ==
    { <<"load", "WAIT_FOR_SAMPLES">>, <<"load", "error">>,
      <<"WAIT_FOR_SAMPLES", "EXTRACT">>, <<"EXTRACT", "ANALYZE">>,
      <<"ANALYZE", "AGGREGATE">>, <<"AGGREGATE", "NORMALIZE">>,
      <<"NORMALIZE", "EMIT">>, <<"EMIT", "WAIT_FOR_SAMPLES">> }

\* the number of whole frames popped so far
FramesExtracted == Len(popped) \div samples_per_frame

\* every step keeps the stage or moves to the next stage of the cycle
C13_StageStep ==
    Stage(pc') # Stage(pc) => <<Stage(pc), Stage(pc')>> \in StageOrder

\* one weight vector and one image per extracted frame, and no pop of the
\* next frame before the image of the previous one was shown
C13_OnePerFrame ==
    /\ Stage(pc) = "WAIT_FOR_SAMPLES" =>
         /\ Len(popped) = samples_per_frame * images
         /\ Len(yielded) = images
    /\ pc = "pop" =>
         /\ Len(popped) = samples_per_frame * images + Len(audio)
         /\ Len(yielded) = images
    /\ (pc = "mono" \/ Stage(pc) \in {"ANALYZE", "AGGREGATE"}) =>
         /\ FramesExtracted = images + 1
         /\ Len(yielded) = images
    /\ Stage(pc) \in {"NORMALIZE", "EMIT"} =>
         /\ FramesExtracted = images + 1
         /\ Len(yielded) = images + 1

\* once the loop has extracted a frame it is never in a state it cannot
\* leave
C13_NoTerminal == popped # << >> => ENABLED consumer_step

\* C13: each cycle goes through the stages wait, extract, analyze,
\* aggregate, normalize, emit in that order; each extracted frame gives one
\* weight vector and one image; the next extraction does not begin before
\* the image was emitted; the loop has no terminal state.
C13_PipelineCycle ==
    /\ [][C13_StageStep]_vars
    /\ []C13_OnePerFrame
    /\ []C13_NoTerminal

\* an append puts the new pair in front of the unchanged buffer: nothing
\* is discarded or overwritten to make room
C14_AppendKeeps ==
    arrival' # arrival =>
      raw_audio' = << arrival'[Len(arrival')] >> \o raw_audio

\* the buffer holds every pair that arrived and was not popped
C14_NothingDropped == Len(raw_audio) = Len(arrival) - Len(popped)

\* C14: the buffer has no capacity and no drop policy: no append discards
\* or overwrites a pair and the buffer holds all arrivals not yet popped,
\* however many they are.
C14_UnboundedBuffer == [][C14_AppendKeeps]_vars /\ []C14_NothingDropped

\* the consumer has popped nothing and the buffer holds every pair the
\* callback delivered, up to the bound of the model
C14_Witness ==
    /\ Len(raw_audio) = MaxArrivals
    /\ Len(raw_audio) > MaxFrame
    /\ popped = << >>

\* C15: any two cycles of a run whose mono frames are identical yielded
\* identical weight vectors, whatever was processed in between and whatever
\* the buffer held.
C15_SameFrameSameWeights ==
    \A i, j \in 1..Len(yielded) :
      yielded[i].mono = yielded[j].mono =>
        yielded[i].weights = yielded[j].weights

\* two cycles were given the same mono frame, made of different stereo
\* pairs, and yielded the same non-zero weights
C15_Witness ==
    /\ pc = "combine"
    /\ Len(yielded) = 2
    /\ yielded[1].mono = yielded[2].mono
    /\ yielded[1].weights = yielded[2].weights
    /\ \E k \in 1..Len(yielded[2].weights) : yielded[2].weights[k] # 0
    /\ SubSeq(popped, 1, samples_per_frame) #
         SubSeq(popped, samples_per_frame + 1, 2 * samples_per_frame)

\* the combination of lines 82-91 alone, applied to every small weight
\* vector of the length of the noise basis
InitCombine ==
    /\ seeds \in SeedLists(MaxBasis) \ { << >> }
    /\ samples_per_frame = 1
    /\ pc = "combine"
    /\ periodogram = << >>
    /\ periodogram_summed \in SeqsOfLen(0..MaxWeight, Len(seeds))
    /\ ppc = "idle"
    /\ pending = << >>
    /\ Blank

NextCombine ==
    \/ combine
    \/ run_model

SpecCombine == InitCombine /\ [][NextCombine]_vars

\* the quotient q (num / sqrt(den2)) equals x / sqrt(n2)
SameQuotient(q, x, n2) ==
    /\ q.kind = "finite"
    /\ (q.num > 0) = (x > 0)
    /\ (q.num < 0) = (x < 0)
    /\ q.num * q.num * n2 = x * x * q.den2

\* C16: when the weighted sum of the noise vectors is not the zero vector,
\* the direction handed on is finite and the squares of its components add
\* up to 1; when a single weight is non-zero the direction is that seed's
\* noise vector divided by its norm ([1, 0, 0] gives v0 / norm(v0)).
C16_UnitNorm ==
    (pc = "run" /\ \E d \in 1..Dim : normalised_noise[d].num # 0) =>
      /\ \A d \in 1..Dim :
           /\ normalised_noise[d].kind = "finite"
           /\ normalised_noise[d].den2 =
                SeqSum([e \in 1..Dim |->
                          normalised_noise[e].num * normalised_noise[e].num])
      /\ \A i \in 1..bin_count :
           (\A k \in 1..bin_count : (periodogram_summed[k] # 0) = (k = i)) =>
             \A d \in 1..Dim :
               SameQuotient(normalised_noise[d], all_input_noise[i][d],
                            SeqSum([e \in 1..Dim |->
                              all_input_noise[i][e] * all_input_noise[i][e]]))

\* three seeds and the weights [1, 0, 0]: the direction is v0 / norm(v0)
C16_Witness ==
    /\ pc = "run"
    /\ periodogram_summed = <<1, 0, 0>>
    /\ \A d \in 1..Dim :
         /\ normalised_noise[d].kind = "finite"
         /\ normalised_noise[d].num = randn(seeds[1])[d]
         /\ normalised_noise[d].den2 > 0
    /\ \E d \in 1..Dim : normalised_noise[d].num # 0

\* C17: whatever appends land during an extraction, the frame is made of
\* the pairs that were oldest in the buffer at the length check, in arrival
\* order, exactly as without any append; and the pairs popped over all
\* cycles, in pop order, are the arrival sequence from its start: each
\* popped pair once, none skipped between two extractions.
C17_InterleavingSafe ==
    /\ Len(popped) <= Len(arrival)
    /\ popped = SubSeq(arrival, 1, Len(popped))
    /\ pc = "mono" =>
         LET first == check_mark.arrived - check_mark.len
         IN  /\ first = Len(popped) - samples_per_frame
             /\ audio = SubSeq(arrival, first + 1, first + samples_per_frame)

\* an extraction of two different pairs completed although a pair, different
\* from the last one popped, was appended after its length check
C17_Witness ==
    /\ pc = "mono"
    /\ samples_per_frame = 2
    /\ audio[1] # audio[2]
    /\ Len(arrival) > check_mark.arrived
    /\ raw_audio # << >>
    /\ raw_audio[1] # audio[2]

\* capture, extraction and sum of lines 120-128 and 49-54 alone, for one
\* process cycle whose port buffers hold samples at the ends of the range
InitMono ==
    /\ seeds = <<1>>
    /\ samples_per_frame \in 1..MaxMonoFrame
    /\ pc = "check"
    /\ periodogram = << >>
    /\ periodogram_summed = << >>
    /\ ppc = "append"
    /\ \E one \in SeqsOfLen(ExtremeBytes, samples_per_frame),
          two \in SeqsOfLen(ExtremeBytes, samples_per_frame) :
         pending = zip(unpack_bytes(Flatten(one), samples_per_frame),
                       unpack_bytes(Flatten(two), samples_per_frame))
    /\ Blank

NextMono ==
    \/ process_append
    \/ check_buffer
    \/ sleep
    \/ pop
    \/ mono

SpecMono == InitMono /\ [][NextMono]_vars

\* floor((a + b) / 2) and the parity of a + b, for 32 bit a and b
HalfSum(a, b) == (a \div 2) + (b \div 2) + (((a % 2) + (b % 2)) \div 2)

SumParity(a, b) == ((a % 2) + (b % 2)) % 2

\* floor(v / 2) for the value v = m.lo + m.carry * 2^32 of a summed sample
HalfOf(m) ==
    CASE m.carry = 0 -> m.lo \div 2
      [] m.carry = 1 -> ((m.lo \div 2) + 2147483647) + 1
      [] m.carry = -1 -> ((m.lo \div 2) - 2147483647) - 1

\* C18: element i of the mono frame is the exact sum left + right of the
\* i-th pair popped, with no wrap-around at the 32 bit boundary.
C18_ExactSum ==
    pc = "welch" =>
      /\ Len(audio_mono) = Len(audio)
      /\ \A i \in 1..Len(audio) :
           /\ HalfOf(audio_mono[i]) = HalfSum(audio[i][1], audio[i][2])
           /\ audio_mono[i].lo % 2 = SumParity(audio[i][1], audio[i][2])

====
